---- MODULE Spec2Model ----
(***************************************************************************)
(* A model of kivy/uix/settings.py: the value synchronisation between the  *)
(* setting items of a panel and the ConfigParser behind it, the JSON       *)
(* driven construction of panels, and the navigation between the panels    *)
(* of a Settings widget (sidebar variant and no-menu variant).             *)
(*                                                                         *)
(* Python values are modelled as strings.  NoneValue stands for None, and  *)
(* IntOne stands for the integer 1, a value that is not a string and that  *)
(* str() turns into the string "1".  Widget uids are positive integers, 0  *)
(* is the default of the NumericProperty holding a uid.                    *)
(***************************************************************************)
EXTENDS Integers, Sequences, FiniteSets, TLC

\* ------------------------------------------------------------------ bounds
\* The panels created, and the records of a JSON definition.
MaxPanels == 2
MaxRecords == 2

\* ------------------------------------------------------- values and store
NoneValue == "<None>"
IntOne == "<int 1>"
Strings == {"a", "1"}
NonStrings == {IntOne}

\* The (section, key) pairs for which the ConfigParser holds a value.
Addresses == {<<"s", "k1">>, <<"s", "k2">>}

\* The ConfigParser instance given to the panels (None: a panel without one).
TheConfig == "config"
\* The Settings instance given to the panels created by create_json_panel.
TheSettings == "settings"

\* isinstance(value, string_types)
is_string(value) == value \notin NonStrings \cup {NoneValue}

\* str(value) for the values that are not strings
str(value) == IF value = IntOne THEN "1" ELSE IF value = NoneValue THEN "None" ELSE value

\* text.strip()
strip(text) == IF text \in {" a", "a "} THEN "a" ELSE text

VARIABLES
    store,          \* the ConfigParser: address -> string
    types,          \* Settings._types: type tag -> class name (NoneValue: unregistered)
    peer_types,     \* the _types of a second Settings instance
    allPanels,      \* the SettingsPanel objects created, by uid
    panels,         \* ContentPanel.panels: uid -> panel
    current_panel,  \* ContentPanel.current_panel (0: None)
    current_panel_uid,  \* ContentPanel.current_panel_uid
    children,       \* ContentPanel.container.children
    settings_uid,   \* Settings.current_panel_uid
    selected_uid,   \* MenuSidebar.selected_uid
    labels,         \* MenuSidebar.buttons_layout.children, in the order added
    variant,        \* the Settings class: "sidebar" (Settings) or "nomenu" (SettingsWithNoMenu)
    trace,          \* the store calls and notifications of the last operation
    last            \* the last operation: its name, arguments and outcome

vars == <<store, types, peer_types, allPanels, panels, current_panel, current_panel_uid,
          children, settings_uid, selected_uid, labels, variant, trace, last>>

\* ------------------------------------------------------------- ConfigParser
\* One entry of the trace: a call on the ConfigParser (get, set, write) or an
\* on_config_change event dispatched on the Settings instance.
Event(op, config, section, key, value) ==
    [op |-> op, config |-> config, section |-> section, key |-> key, value |-> value]

\* The world a handler runs in: the ConfigParser's content and the trace so far.
World(st, tr) == [store |-> st, trace |-> tr]

\* ------------------------------------------------------------ SettingsPanel
\* What stands for the exception config.get raises when the ConfigParser has
\* no value for the section and key (NoSectionError, NoOptionError).
Missing == "<NoSectionError>"

\* SettingsPanel.get_value: None without a config, else config.get(section, key).
get_value(config, section, key, W) ==
    IF config = NoneValue
    THEN [ret |-> NoneValue, world |-> W]
    ELSE [ret |-> IF <<section, key>> \in DOMAIN W.store
                  THEN W.store[<<section, key>>]
                  ELSE Missing,
          world |-> World(W.store,
                          Append(W.trace, Event("get", config, section, key, NoneValue)))]

\* set_value_changed with the event dispatched before the config is set and
\* written.
set_value_notify_first(config, settings, section, key, value, W) ==
    LET W1 == IF settings # NoneValue
              THEN World(W.store,
                         Append(W.trace, Event("on_config_change", config, section, key, value)))
              ELSE W
    IN  IF config # NoneValue
        THEN World([W1.store EXCEPT ![<<section, key>>] = value],
                   W1.trace \o <<Event("set", config, section, key, value),
                                 Event("write", config, NoneValue, NoneValue, NoneValue)>>)
        ELSE W1

\* The tail of set_value once current differs from value: config.set and
\* config.write when there is a config, then the on_config_change event when
\* there is a Settings instance.
set_value_changed(config, settings, section, key, value, W) ==
    LET W1 == IF config # NoneValue
              THEN World([W.store EXCEPT ![<<section, key>>] = value],
                         W.trace \o <<Event("set", config, section, key, value),
                                      Event("write", config, NoneValue, NoneValue, NoneValue)>>)
              ELSE W
    IN  IF settings # NoneValue
        THEN World(W1.store,
                   Append(W1.trace, Event("on_config_change", config, section, key, value)))
        ELSE W1

\* set_value without the comparison with the current value.
set_value_unconditional(config, settings, section, key, value, W) ==
    set_value_changed(config, settings, section, key, value,
                      get_value(config, section, key, W).world)

\* SettingsPanel.set_value
set_value(config, settings, section, key, value, W) ==
    LET got == get_value(config, section, key, W)
    IN  IF got.ret = value
        THEN got.world
        ELSE set_value_changed(config, settings, section, key, value, got.world)

\* -------------------------------------------------------------- SettingItem
\* The classes of the module that a type tag can be bound to.
ItemClasses == {"SettingString", "SettingBoolean", "SettingNumeric",
                "SettingOptions", "SettingPath"}

\* A property of an item given by keyword, or None, the properties' default.
Prop(kw, name) == IF name \in DOMAIN kw THEN kw[name] ELSE NoneValue

\* not x, for a string property x
Falsy(x) == x = NoneValue \/ x = ""

\* An item is bound to the store when both its section and its key are set.
Bound(entry) ==
    /\ entry.cls \in ItemClasses
    /\ ~Falsy(Prop(entry.kw, "section"))
    /\ ~Falsy(Prop(entry.kw, "key"))

AddressOf(entry) == <<Prop(entry.kw, "section"), Prop(entry.kw, "key")>>

\* SettingItem.on_value
on_value(config, settings, entry, value, W) ==
    IF Falsy(Prop(entry.kw, "section")) \/ Falsy(Prop(entry.kw, "key"))
    THEN W
    ELSE set_value(config, settings, Prop(entry.kw, "section"), Prop(entry.kw, "key"),
                   IF is_string(value) THEN value ELSE str(value), W)

\* An assignment to SettingItem.value: the property stores the value and calls
\* on_value when the value differs from the one it holds.
assign_value(config, settings, entry, value, W) ==
    IF entry.value = value
    THEN [entry |-> entry, world |-> W]
    ELSE [entry |-> [entry EXCEPT !.value = value],
          world |-> on_value(config, settings, entry, value, W)]

\* construct that stores the value read without running on_value.
construct_read_once(cls, config, settings, kw, W) ==
    LET fresh == [cls |-> cls, kw |-> kw, value |-> NoneValue]
    IN  IF cls = "SettingTitle"
        THEN [entry |-> fresh, world |-> W, raised |-> FALSE]
        ELSE LET got == get_value(config, Prop(kw, "section"), Prop(kw, "key"), W)
             IN  [entry |-> [fresh EXCEPT !.value = got.ret], world |-> got.world,
                  raised |-> got.ret = Missing]

\* SettingItem.__init__: the properties given by keyword, then
\* self.value = self.panel.get_value(self.section, self.key).
\* SettingTitle is a Label: it has no value and reads nothing.
\* raised: config.get raised, and the exception leaves __init__.
construct(cls, config, settings, kw, W) ==
    LET fresh == [cls |-> cls, kw |-> kw, value |-> NoneValue]
    IN  IF cls = "SettingTitle"
        THEN [entry |-> fresh, world |-> W, raised |-> FALSE]
        ELSE LET got == get_value(config, Prop(kw, "section"), Prop(kw, "key"), W)
             IN  IF got.ret = Missing
                 THEN [entry |-> fresh, world |-> got.world, raised |-> TRUE]
                 ELSE LET done == assign_value(config, settings, fresh, got.ret, got.world)
                      IN  [entry |-> done.entry, world |-> done.world, raised |-> FALSE]

\* ------------------------------------------------------------ SettingNumeric
\* A number: an int, or a float held in tenths (55 is 5.5).  ok is FALSE for
\* the ValueError int() and float() raise on a text they cannot read.
Number(kind, n) == [ok |-> TRUE, kind |-> kind, n |-> n]
ValueError == [ok |-> FALSE, kind |-> "ValueError", n |-> 0]

\* int(text): the digits of an integer, with blanks around them allowed
int(text) ==
    CASE text \in {"5", " 5"} -> Number("int", 5)
      [] text = "3"           -> Number("int", 3)
      [] OTHER                -> ValueError

\* float(text): an integer, a decimal fraction or an exponent form
float(text) ==
    CASE text \in {"5", " 5"} -> Number("float", 50)
      [] text = "3"           -> Number("float", 30)
      [] text = "5.5"         -> Number("float", 55)
      [] text = "1e1"         -> Number("float", 100)
      [] OTHER                -> ValueError

\* text_type(number): the digits of an int; a float always with a fraction
text_type(number) ==
    IF number.kind = "int"
    THEN ToString(number.n)
    ELSE ToString(number.n \div 10) \o "." \o ToString(number.n % 10)

\* The floats of the model, in tenths: 3.0, 5.0, 5.5 and 10.0.
Tenths == {30, 50, 55, 100}

\* '.' in text, for the values an item of the model takes
has_dot(text) == text \in {text_type(Number("float", x)) : x \in Tenths}

\* numeric_validate that reads every text as an int.
numeric_validate_int_only(value, text) ==
    LET parsed == int(text)
    IN  [ok |-> parsed.ok, value |-> IF parsed.ok THEN text_type(parsed) ELSE value]

\* SettingNumeric._validate up to the assignment: the value to assign for the
\* text in the popup, or the ValueError caught (ok is FALSE).
numeric_validate(value, text) ==
    LET is_float == has_dot(str(value))
        parsed == IF is_float THEN float(text) ELSE int(text)
    IN  [ok |-> parsed.ok, value |-> IF parsed.ok THEN text_type(parsed) ELSE value]

\* ----------------------------------------------------------------- Settings
\* The type tags of the model: the six registered by Settings.__init__ and one
\* that is not.
Tags == {"string", "bool", "numeric", "options", "title", "path", "color"}

\* Settings._types after Settings.__init__
DefaultTypes ==
    [tp \in Tags |->
        CASE tp = "string"  -> "SettingString"
          [] tp = "bool"    -> "SettingBoolean"
          [] tp = "numeric" -> "SettingNumeric"
          [] tp = "options" -> "SettingOptions"
          [] tp = "title"   -> "SettingTitle"
          [] tp = "path"    -> "SettingPath"
          [] OTHER          -> NoneValue]

\* register_type that keeps the class a tag is bound to already.
register_type_if_absent(registry, tp, cls) ==
    IF registry[tp] = NoneValue THEN [registry EXCEPT ![tp] = cls] ELSE registry

\* Settings.register_type
register_type(registry, tp, cls) == [registry EXCEPT ![tp] = cls]

\* ------------------------------------------------------------ JSON documents
\* The records a JSON definition is made of: functions from its keys.
StringRecord  == [k \in {"type", "section", "key"} |->
                    CASE k = "type" -> "string" [] k = "section" -> "s" [] OTHER -> "k1"]
OptionsRecord == [k \in {"type", "section", "key"} |->
                    CASE k = "type" -> "options" [] k = "section" -> "s" [] OTHER -> "k1"]
BoolRecord    == [k \in {"type", "section", "key"} |->
                    CASE k = "type" -> "bool" [] k = "section" -> "s" [] OTHER -> "k2"]
TitleRecord   == [k \in {"type", "title"} |->
                    CASE k = "type" -> "title" [] OTHER -> "T"]
ColorRecord   == [k \in {"type", "section", "key"} |->
                    CASE k = "type" -> "color" [] k = "section" -> "s" [] OTHER -> "k2"]
UntypedRecord == [k \in {"title"} |-> "T"]

SeqsUpTo(S, n) == UNION {[1..k -> S] : k \in 0..n}

\* A JSON text, by what json.loads makes of it: a list of records, a value
\* that is no list, or a ValueError.
ListText(items) == [kind |-> "list", items |-> items]
ObjectText == [kind |-> "object", items |-> <<>>]
\* data=None
NoText == [kind |-> "none", items |-> <<>>]
MalformedText == [kind |-> "malformed", items |-> <<>>]

\* The files on disk: one holds a JSON definition, the other does not exist.
Files == {"settings.json", "missing.json"}
FileExists(filename) == filename = "settings.json"
FileText(filename) == ListText(<<TitleRecord, BoolRecord>>)
\* The text create_json_panel parses when the file can be read.
SourceText(filename, data) == IF filename # NoneValue THEN FileText(filename) ELSE data

\* The record without its "type" key, its keys turned into strings (they are
\* strings already: the keys of a JSON object).
str_settings(setting) == [k \in DOMAIN setting \ {"type"} |-> setting[k]]

Raise(what, W) == [status |-> "raise", error |-> what, entries |-> <<>>, world |-> W]

\* add_settings with each instance put in front of those added before it.
RECURSIVE add_settings_in_front(_, _, _, _, _, _, _)
add_settings_in_front(registry, config, settings, data, i, entries, W) ==
    IF i > Len(data)
    THEN [status |-> "ok", error |-> NoneValue, entries |-> entries, world |-> W]
    ELSE LET setting == data[i]
         IN  IF "type" \notin DOMAIN setting
             THEN Raise("ValueError: missing type", W)
             ELSE LET cls == registry[setting["type"]]
                  IN  IF cls = NoneValue
                      THEN Raise("ValueError: no class registered", W)
                      ELSE LET made == construct(cls, config, settings,
                                                 str_settings(setting), W)
                           IN  IF made.raised
                               THEN Raise("NoSectionError", made.world)
                               ELSE add_settings_in_front(registry, config, settings, data, i + 1,
                                      <<made.entry>> \o entries, made.world)

\* add_settings that stops at a record it cannot build and keeps the panel
\* built so far.
RECURSIVE add_settings_until_bad(_, _, _, _, _, _, _)
add_settings_until_bad(registry, config, settings, data, i, entries, W) ==
    IF i > Len(data)
    THEN [status |-> "ok", error |-> NoneValue, entries |-> entries, world |-> W]
    ELSE LET setting == data[i]
         IN  IF "type" \notin DOMAIN setting
             THEN [status |-> "ok", error |-> NoneValue, entries |-> entries, world |-> W]
             ELSE LET cls == registry[setting["type"]]
                  IN  IF cls = NoneValue
                      THEN [status |-> "ok", error |-> NoneValue, entries |-> entries,
                            world |-> W]
                      ELSE LET made == construct(cls, config, settings,
                                                 str_settings(setting), W)
                           IN  IF made.raised
                               THEN Raise("NoSectionError", made.world)
                               ELSE add_settings_until_bad(registry, config, settings, data, i + 1,
                                      Append(entries, made.entry), made.world)

\* The loop of create_json_panel over data, from the i-th record on, with the
\* instances added to the panel so far.
RECURSIVE add_settings(_, _, _, _, _, _, _)
add_settings(registry, config, settings, data, i, entries, W) ==
    IF i > Len(data)
    THEN [status |-> "ok", error |-> NoneValue, entries |-> entries, world |-> W]
    ELSE LET setting == data[i]
         IN  IF "type" \notin DOMAIN setting
             THEN Raise("ValueError: missing type", W)
             ELSE LET cls == registry[setting["type"]]
                  IN  IF cls = NoneValue
                      THEN Raise("ValueError: no class registered", W)
                      ELSE LET made == construct(cls, config, settings,
                                                 str_settings(setting), W)
                           IN  IF made.raised
                               THEN Raise("NoSectionError", made.world)
                               ELSE add_settings(registry, config, settings, data, i + 1,
                                      Append(entries, made.entry), made.world)

\* create_json_panel that parses data when data is given, and the file
\* otherwise.
create_json_panel_data_first(registry, title, config, filename, data, W) ==
    IF filename = NoneValue /\ data = NoText
    THEN Raise("Exception: specify filename or data", W)
    ELSE IF data = NoText /\ ~FileExists(filename)
    THEN Raise("IOError", W)
    ELSE LET text == IF data # NoText THEN data ELSE FileText(filename)
         IN  IF text.kind = "malformed"
             THEN Raise("ValueError: json", W)
             ELSE IF text.kind # "list"
             THEN Raise("ValueError: not a list", W)
             ELSE add_settings(registry, config, TheSettings, text.items, 1, <<>>, W)

\* Settings.create_json_panel: the panel's entries in the order they were
\* added, or the exception raised.
create_json_panel(registry, title, config, filename, data, W) ==
    IF filename = NoneValue /\ data = NoText
    THEN Raise("Exception: specify filename or data", W)
    ELSE IF filename # NoneValue /\ ~FileExists(filename)
    THEN Raise("IOError", W)
    ELSE LET text == IF filename # NoneValue THEN FileText(filename) ELSE data
         IN  IF text.kind = "malformed"
             THEN Raise("ValueError: json", W)
             ELSE IF text.kind # "list"
             THEN Raise("ValueError: not a list", W)
             ELSE add_settings(registry, config, TheSettings, text.items, 1, <<>>, W)

\* A SettingsPanel object.
Panel(title, config, settings, entries) ==
    [title |-> title, config |-> config, settings |-> settings, entries |-> entries]

\* ------------------------------------------------------------- ContentPanel
\* The navigation state the handlers below run on: the ContentPanel, the
\* Settings' current_panel_uid and the menu.  raised is set once a handler
\* has raised: what follows the raise is skipped.
Nav(ps, cp, cpu, ch, suid, sel, lbls) ==
    [panels |-> ps, current_panel |-> cp, current_panel_uid |-> cpu, children |-> ch,
     settings_uid |-> suid, selected_uid |-> sel, labels |-> lbls, raised |-> FALSE]

\* d[k] = v on a dict
DictSet(d, k, v) == [x \in DOMAIN d \cup {k} |-> IF x = k THEN v ELSE d[x]]

\* Widget.remove_widget on the container: the widget leaves the children.
Without(ch, widget) == SelectSeq(ch, LAMBDA w : w # widget)

\* ContentPanel.remove_widget
remove_widget(N, widget) == [N EXCEPT !.children = Without(N.children, widget)]

\* ContentPanel.add_widget, with a container: Widget.add_widget puts the
\* widget in front of the container's children.
ContentPanel_add_widget(N, widget) == [N EXCEPT !.children = <<widget>> \o N.children]

\* ContentNoMenu.add_widget
ContentNoMenu_add_widget(N, widget) ==
    IF Len(N.children) > 0
    THEN [N EXCEPT !.raised = TRUE]
    ELSE ContentPanel_add_widget(N, widget)

add_widget(kind, N, widget) ==
    IF kind = "nomenu" THEN ContentNoMenu_add_widget(N, widget)
                       ELSE ContentPanel_add_widget(N, widget)

\* switch_to_panel that removes the current panel before it looks the uid up.
switch_to_panel_remove_first(kind, N, uid) ==
    LET N1 == IF N.current_panel # 0 THEN remove_widget(N, N.current_panel) ELSE N
    IN  IF uid \in DOMAIN N.panels
        THEN LET new_panel == N.panels[uid]
                 N2 == add_widget(kind, N1, new_panel)
             IN  IF N2.raised
                 THEN [nav |-> N2, ret |-> "raise"]
                 ELSE [nav |-> [N2 EXCEPT !.current_panel_uid = uid,
                                          !.current_panel = new_panel],
                       ret |-> "True"]
        ELSE [nav |-> N1, ret |-> "False"]

\* switch_to_panel that stores the uid before it looks it up.
switch_to_panel_store_first(kind, N, uid) ==
    LET N0 == [N EXCEPT !.current_panel_uid = uid]
    IN  IF uid \in DOMAIN N.panels
        THEN LET N1 == IF N0.current_panel # 0 THEN remove_widget(N0, N0.current_panel)
                                               ELSE N0
                 new_panel == N.panels[uid]
                 N2 == add_widget(kind, N1, new_panel)
             IN  IF N2.raised
                 THEN [nav |-> N2, ret |-> "raise"]
                 ELSE [nav |-> [N2 EXCEPT !.current_panel = new_panel], ret |-> "True"]
        ELSE [nav |-> N0, ret |-> "False"]

\* ContentPanel.switch_to_panel: the state after it, and what it returns.
switch_to_panel(kind, N, uid) ==
    IF uid \in DOMAIN N.panels
    THEN LET N1 == IF N.current_panel # 0 THEN remove_widget(N, N.current_panel) ELSE N
             new_panel == N.panels[uid]
             N2 == add_widget(kind, N1, new_panel)
         IN  IF N2.raised
             THEN [nav |-> N2, ret |-> "raise"]
             ELSE [nav |-> [N2 EXCEPT !.current_panel_uid = uid,
                                      !.current_panel = new_panel],
                   ret |-> "True"]
    ELSE [nav |-> N, ret |-> "False"]

\* add_panel that switches to every panel added.
add_panel_always_switch(kind, N, panel, uid) ==
    switch_to_panel(kind, [N EXCEPT !.panels = DictSet(N.panels, uid, panel)], uid).nav

\* ContentPanel.add_panel
add_panel(kind, N, panel, uid) ==
    LET N1 == [N EXCEPT !.panels = DictSet(N.panels, uid, panel)]
    IN  IF N1.current_panel_uid = 0
        THEN switch_to_panel(kind, N1, uid).nav
        ELSE N1

\* An assignment to Settings.current_panel_uid: the property stores the uid
\* and, when it differs from the one it holds, calls on_current_panel_uid,
\* which asks the content to switch and drops what switch_to_panel returns.
set_current_panel_uid(kind, N, uid) ==
    IF N.settings_uid = uid
    THEN N
    ELSE switch_to_panel(kind, [N EXCEPT !.settings_uid = uid], uid).nav

\* --------------------------------------------------------------- MenuSidebar
Label(name, uid, selected) == [text |-> name, uid |-> uid, selected |-> selected]

\* on_selected_uid that leaves every label as it is.
on_selected_uid_keep(N) == N

\* MenuSidebar.on_selected_uid
on_selected_uid(N) ==
    [N EXCEPT !.labels = [i \in DOMAIN N.labels |->
                            IF N.labels[i].uid # N.selected_uid
                            THEN [N.labels[i] EXCEPT !.selected = FALSE]
                            ELSE N.labels[i]]]

\* An assignment to MenuSidebar.selected_uid: when the uid differs from the one
\* held, on_selected_uid runs and the setter bound by Settings.on_menu assigns
\* the uid to Settings.current_panel_uid.
set_selected_uid(kind, N, uid) ==
    IF N.selected_uid = uid
    THEN N
    ELSE set_current_panel_uid(kind, on_selected_uid([N EXCEPT !.selected_uid = uid]), uid)

\* MenuSidebar.add_item
add_item(N, name, uid) ==
    [N EXCEPT !.labels = Append(N.labels, Label(name, uid, Len(N.labels) = 0))]

\* SettingSidebarLabel.on_touch_down, for a touch on the i-th label
on_touch_down(kind, N, i) ==
    set_selected_uid(kind, [N EXCEPT !.labels[i].selected = TRUE], N.labels[i].uid)

\* The part of Settings.add_json_panel that follows create_json_panel.
add_created_panel(kind, N, title, uid) ==
    LET N1 == add_panel(kind, N, uid, uid)
    IN  IF N1.raised \/ kind = "nomenu"
        THEN N1
        ELSE add_item(IF N1.selected_uid = 0 THEN set_selected_uid(kind, N1, uid) ELSE N1,
                      title, uid)

\* ------------------------------------------------------------------ actions
\* What last records: the operation, its arguments (0, None and NoText for
\* those it does not take) and what it returned.
Call(op, uid, index, value, config, filename, data, ret) ==
    [op |-> op, uid |-> uid, index |-> index, value |-> value, config |-> config,
     filename |-> filename, data |-> data, ret |-> ret]

TheNav == Nav(panels, current_panel, current_panel_uid, children,
              settings_uid, selected_uid, labels)

\* The navigation variables take the fields of N.
NavBecomes(N) ==
    /\ panels' = N.panels
    /\ current_panel' = N.current_panel
    /\ current_panel_uid' = N.current_panel_uid
    /\ children' = N.children
    /\ settings_uid' = N.settings_uid
    /\ selected_uid' = N.selected_uid
    /\ labels' = N.labels

NavUnchanged == UNCHANGED <<panels, current_panel, current_panel_uid, children,
                            settings_uid, selected_uid, labels>>

Titles == {"P"}
Configs == {TheConfig, NoneValue}

\* The ConfigParser must hold a value for the section and key of every item
\* it is asked for ("Make sure you have default values for all sections/keys
\* in your JSON file!"): an item without them is only built in a panel that
\* has no config.  A record that names no section or no key names nothing the
\* ConfigParser could hold a value for.
Resolvable(registry, config, text) ==
    \/ config = NoneValue
    \/ \A i \in DOMAIN text.items :
          LET setting == text.items[i]
          IN  (/\ "type" \in DOMAIN setting
               /\ registry[setting["type"]] \in ItemClasses
               /\ ~Falsy(Prop(setting, "section"))
               /\ ~Falsy(Prop(setting, "key")))
                  => <<Prop(setting, "section"), Prop(setting, "key")>> \in Addresses

Init ==
    /\ store = [a \in Addresses |-> "a"]
    /\ types = DefaultTypes
    /\ peer_types = DefaultTypes
    /\ allPanels = <<>>
    /\ panels = <<>>
    /\ current_panel = 0
    /\ current_panel_uid = 0
    /\ children = <<>>
    /\ settings_uid = 0
    /\ selected_uid = 0
    /\ labels = <<>>
    /\ variant \in {"sidebar", "nomenu"}
    /\ trace = <<>>
    /\ last = Call("init", 0, 0, NoneValue, NoneValue, NoneValue, NoText, NoneValue)

\* A call of register_type as last records it: with the tag and the class.
Registered(op, tp, cls) ==
    [op |-> op, tp |-> tp, cls |-> cls, uid |-> 0, index |-> 0, value |-> NoneValue,
     config |-> NoneValue, filename |-> NoneValue, data |-> NoText, ret |-> "None"]

\* Settings.register_type(tp, cls)
RegisterType(tp, cls) ==
    /\ types' = register_type(types, tp, cls)
    /\ trace' = <<>>
    /\ last' = Registered("register_type", tp, cls)
    /\ NavUnchanged
    /\ UNCHANGED <<store, peer_types, allPanels, variant>>

\* Settings.create_json_panel(title, config, filename, data): the panel is
\* returned to the caller and not added to the content.
CreateJsonPanel(title, config, filename, data) ==
    /\ Len(allPanels) < MaxPanels
    /\ Resolvable(types, config, SourceText(filename, data))
    /\ LET made == create_json_panel(types, title, config, filename, data,
                                     World(store, <<>>))
           uid == Len(allPanels) + 1
       IN  /\ allPanels' = IF made.status = "ok"
                           THEN Append(allPanels,
                                       Panel(title, config, TheSettings, made.entries))
                           ELSE allPanels
           /\ store' = made.world.store
           /\ trace' = made.world.trace
           /\ last' = Call("create_json_panel", IF made.status = "ok" THEN uid ELSE 0, 0,
                           NoneValue, config, filename, data, made.status)
    /\ NavUnchanged
    /\ UNCHANGED <<types, peer_types, variant>>

\* Settings.add_json_panel(title, config, filename, data)
AddJsonPanel(title, config, filename, data) ==
    /\ Len(allPanels) < MaxPanels
    /\ Resolvable(types, config, SourceText(filename, data))
    /\ LET made == create_json_panel(types, title, config, filename, data,
                                     World(store, <<>>))
           uid == Len(allPanels) + 1
           N == add_created_panel(variant, TheNav, title, uid)
       IN  /\ allPanels' = IF made.status = "ok"
                           THEN Append(allPanels,
                                       Panel(title, config, TheSettings, made.entries))
                           ELSE allPanels
           /\ store' = made.world.store
           /\ trace' = made.world.trace
           /\ IF made.status = "ok" THEN NavBecomes(N) ELSE NavUnchanged
           /\ last' = Call("add_json_panel", IF made.status = "ok" THEN uid ELSE 0, 0,
                           NoneValue, config, filename, data,
                           IF made.status = "ok" /\ N.raised THEN "raise" ELSE made.status)
    /\ UNCHANGED <<types, peer_types, variant>>

\* The uids a caller may pass: 0, the uids of the panels and one more.
Uids == 0 .. (MaxPanels + 1)

\* ContentPanel.switch_to_panel(uid), called on the content
SwitchToPanel(uid) ==
    /\ LET done == switch_to_panel(variant, TheNav, uid)
       IN  /\ NavBecomes(done.nav)
           /\ last' = Call("switch_to_panel", uid, 0, NoneValue, NoneValue, NoneValue,
                           NoText, done.ret)
    /\ trace' = <<>>
    /\ UNCHANGED <<store, types, peer_types, allPanels, variant>>

\* settings.current_panel_uid = uid
SetCurrentPanelUid(uid) ==
    /\ LET N == set_current_panel_uid(variant, TheNav, uid)
       IN  /\ NavBecomes(N)
           /\ last' = Call("current_panel_uid", uid, 0, NoneValue, NoneValue, NoneValue,
                           NoText, IF N.raised THEN "raise" ELSE "None")
    /\ trace' = <<>>
    /\ UNCHANGED <<store, types, peer_types, allPanels, variant>>

\* A touch on the i-th label of the sidebar
TouchLabel(i) ==
    /\ i \in DOMAIN labels
    /\ LET N == on_touch_down(variant, TheNav, i)
       IN  /\ NavBecomes(N)
           /\ last' = Call("on_touch_down", labels[i].uid, i, NoneValue, NoneValue,
                           NoneValue, NoText, IF N.raised THEN "raise" ELSE "None")
    /\ trace' = <<>>
    /\ UNCHANGED <<store, types, peer_types, allPanels, variant>>

\* The item at index i of panel uid takes the value: the handlers that commit
\* an edit all end in the assignment self.value = value.
Commits(op, uid, i, value) ==
    /\ uid \in DOMAIN allPanels
    /\ i \in DOMAIN allPanels[uid].entries
    /\ allPanels[uid].entries[i].cls \in ItemClasses
    /\ LET panel == allPanels[uid]
           done == assign_value(panel.config, panel.settings, panel.entries[i], value,
                                World(store, <<>>))
       IN  /\ allPanels' = [allPanels EXCEPT ![uid].entries[i] = done.entry]
           /\ store' = done.world.store
           /\ trace' = done.world.trace
           /\ last' = Call(op, uid, i, value, panel.config, NoneValue, NoText, "None")
    /\ NavUnchanged
    /\ UNCHANGED <<types, peer_types, variant>>

\* item.value = value, as the switch of a SettingBoolean, the buttons of a
\* SettingOptions or the application do it
AssignValue(uid, i, value) == Commits("value", uid, i, value)

\* The texts typed into the popup of a SettingString
InputTexts == {" a", "1"}

\* SettingString._validate, with text in the popup's text input
StringValidate(uid, i, text) ==
    /\ uid \in DOMAIN allPanels
    /\ i \in DOMAIN allPanels[uid].entries
    /\ allPanels[uid].entries[i].cls = "SettingString"
    /\ Commits("_validate", uid, i, strip(text))

\* The texts typed into the popup of a SettingNumeric
NumericTexts == {"5", " 5", "5.5", "1e1", "abc", ""}

\* SettingNumeric._validate, with text in the popup's text input: last holds
\* the text, and "ValueError" when the edit was dropped.
NumericValidate(uid, i, text) ==
    /\ uid \in DOMAIN allPanels
    /\ i \in DOMAIN allPanels[uid].entries
    /\ allPanels[uid].entries[i].cls = "SettingNumeric"
    /\ LET panel == allPanels[uid]
           read == numeric_validate(panel.entries[i].value, text)
           done == IF read.ok
                   THEN assign_value(panel.config, panel.settings, panel.entries[i],
                                     read.value, World(store, <<>>))
                   ELSE [entry |-> panel.entries[i], world |-> World(store, <<>>)]
       IN  /\ allPanels' = [allPanels EXCEPT ![uid].entries[i] = done.entry]
           /\ store' = done.world.store
           /\ trace' = done.world.trace
           /\ last' = Call("numeric._validate", uid, i, text, panel.config, NoneValue,
                           NoText, IF read.ok THEN "None" ELSE "ValueError")
    /\ NavUnchanged
    /\ UNCHANGED <<types, peer_types, variant>>

\* Settings(): a second Settings instance is built, in place of the one built
\* before.
NewPeer ==
    /\ peer_types' = DefaultTypes
    /\ trace' = <<>>
    /\ last' = Call("Settings", 0, 0, NoneValue, NoneValue, NoneValue, NoText, "None")
    /\ NavUnchanged
    /\ UNCHANGED <<store, types, allPanels, variant>>

\* register_type(tp, cls) on the second Settings instance
PeerRegisterType(tp, cls) ==
    /\ peer_types' = register_type(peer_types, tp, cls)
    /\ trace' = <<>>
    /\ last' = Registered("peer.register_type", tp, cls)
    /\ NavUnchanged
    /\ UNCHANGED <<store, types, allPanels, variant>>

\* create_json_panel(title, config, data=data) on the second Settings instance
PeerCreateJsonPanel(title, config, data) ==
    /\ Len(allPanels) < MaxPanels
    /\ Resolvable(peer_types, config, data)
    /\ LET made == create_json_panel(peer_types, title, config, NoneValue, data,
                                     World(store, <<>>))
           uid == Len(allPanels) + 1
       IN  /\ allPanels' = IF made.status = "ok"
                           THEN Append(allPanels,
                                       Panel(title, config, TheSettings, made.entries))
                           ELSE allPanels
           /\ store' = made.world.store
           /\ trace' = made.world.trace
           /\ last' = Call("peer.create_json_panel", IF made.status = "ok" THEN uid ELSE 0,
                           0, NoneValue, config, NoneValue, data, made.status)
    /\ NavUnchanged
    /\ UNCHANGED <<types, peer_types, variant>>

\* ------------------------------------------------------------ specifications
\* The operations are checked in three specifications, one for each part of
\* the module, each with the inputs its part reads.

\* Value synchronisation: panels over one JSON definition with two items
\* bound to the same key, with and without a config, and the edits of their
\* items.
SyncTexts == {ListText(<<StringRecord, OptionsRecord>>)}

NextSync ==
    \/ \E title \in Titles, config \in Configs, data \in SyncTexts :
          CreateJsonPanel(title, config, NoneValue, data)
    \/ \E uid \in 1 .. MaxPanels, i \in 1 .. MaxRecords, value \in Strings \cup NonStrings :
          AssignValue(uid, i, value)
    \/ \E uid \in 1 .. MaxPanels, i \in 1 .. MaxRecords, text \in InputTexts :
          StringValidate(uid, i, text)

\* The Settings widget is the one with the sidebar.
InitSidebar == Init /\ variant = "sidebar"

SpecSync == InitSidebar /\ [][NextSync]_vars

\* Loading: every JSON text of up to MaxRecords records, from a file or from
\* a string, with types registered in between.
LoadRecords == {StringRecord, ColorRecord, UntypedRecord}
LoadTexts == {ListText(items) : items \in SeqsUpTo(LoadRecords, MaxRecords)}
                \cup {ObjectText, MalformedText}
Registrations == {<<"color", "SettingOptions">>}

\* What the caller passes for filename and data: a string alone, nothing, a
\* file alone, and a file together with a string.
LoadSources ==
    {<<NoneValue, data>> : data \in LoadTexts \cup {NoText}}
        \cup {<<filename, data>> : filename \in Files, data \in {NoText, ObjectText}}

NextLoad ==
    \/ \E r \in Registrations : RegisterType(r[1], r[2])
    \/ \E title \in Titles, source \in LoadSources :
          AddJsonPanel(title, TheConfig, source[1], source[2])

SpecLoad == InitSidebar /\ [][NextLoad]_vars

\* Navigation: panels added from a JSON text, a text that is no definition,
\* and every way of choosing the panel shown.
NavTexts == {ListText(<<TitleRecord>>), ObjectText}

NextNav ==
    \/ \E title \in Titles, data \in NavTexts :
          AddJsonPanel(title, TheConfig, NoneValue, data)
    \/ \E uid \in Uids : SwitchToPanel(uid)
    \/ \E uid \in Uids : SetCurrentPanelUid(uid)
    \/ \E i \in 1 .. MaxPanels : TouchLabel(i)

SpecNav == Init /\ [][NextNav]_vars

\* Numeric items: a panel with an item whose value is an int and one whose
\* value is a float, with and without a config, and the texts typed into
\* their popups.
IntRecord   == [k \in {"type", "section", "key"} |->
                  CASE k = "type" -> "numeric" [] k = "section" -> "s" [] OTHER -> "k1"]
FloatRecord == [k \in {"type", "section", "key"} |->
                  CASE k = "type" -> "numeric" [] k = "section" -> "s" [] OTHER -> "k2"]
NumericDefinitions == {ListText(<<IntRecord, FloatRecord>>)}

\* The ConfigParser holds an int for s/k1 and a float for s/k2.
InitNumeric ==
    /\ store = [a \in Addresses |-> IF a = <<"s", "k1">> THEN "3" ELSE "3.0"]
    /\ types = DefaultTypes
    /\ peer_types = DefaultTypes
    /\ allPanels = <<>>
    /\ panels = <<>>
    /\ current_panel = 0
    /\ current_panel_uid = 0
    /\ children = <<>>
    /\ settings_uid = 0
    /\ selected_uid = 0
    /\ labels = <<>>
    /\ variant = "sidebar"
    /\ trace = <<>>
    /\ last = Call("init", 0, 0, NoneValue, NoneValue, NoneValue, NoText, NoneValue)

NextNumeric ==
    \/ \E title \in Titles, config \in Configs, data \in NumericDefinitions :
          CreateJsonPanel(title, config, NoneValue, data)
    \/ \E uid \in 1 .. MaxPanels, i \in 1 .. MaxRecords, text \in NumericTexts :
          NumericValidate(uid, i, text)

SpecNumeric == InitNumeric /\ [][NextNumeric]_vars

\* Items without a section or a key: a record that names neither and one that
\* names a key alone, in panels with and without a config, beside an item
\* that names both, and the edits of the items built.
UnboundRecord == [k \in {"type", "title"} |->
                    CASE k = "type" -> "string" [] OTHER -> "T"]
KeyOnlyRecord == [k \in {"type", "key"} |->
                    CASE k = "type" -> "string" [] OTHER -> "k1"]
UnboundDefinitions == {ListText(<<UnboundRecord, KeyOnlyRecord>>),
                       ListText(<<StringRecord, UnboundRecord>>)}

NextUnbound ==
    \/ \E title \in Titles, config \in Configs, data \in UnboundDefinitions :
          CreateJsonPanel(title, config, NoneValue, data)
    \/ \E uid \in 1 .. MaxPanels, i \in 1 .. MaxRecords, value \in Strings \cup NonStrings :
          AssignValue(uid, i, value)

SpecUnbound == InitSidebar /\ [][NextUnbound]_vars

\* The registries of two Settings instances: a tag that is bound already and
\* one that is not are bound, the second to two classes in turn, in either
\* instance, and definitions with these tags are loaded in both.
Bindings == {<<"string", "SettingNumeric">>, <<"color", "SettingOptions">>,
             <<"color", "SettingBoolean">>}
RegistryDefinitions == {ListText(<<StringRecord>>), ListText(<<ColorRecord>>)}

NextRegistry ==
    \/ NewPeer
    \/ \E r \in Bindings : RegisterType(r[1], r[2])
    \/ \E r \in Bindings : PeerRegisterType(r[1], r[2])
    \/ \E title \in Titles, data \in RegistryDefinitions :
          AddJsonPanel(title, TheConfig, NoneValue, data)
    \/ \E title \in Titles, data \in RegistryDefinitions :
          PeerCreateJsonPanel(title, TheConfig, data)

SpecRegistry == InitSidebar /\ [][NextRegistry]_vars

\* The sidebar: panels added under two titles, with and without a config,
\* from a definition and from a text that is none, and touches on the labels.
MenuTitles == {"P", "Q"}
MenuDefinitions == {ListText(<<TitleRecord>>), ListText(<<TitleRecord, BoolRecord>>),
                    ObjectText}

NextMenu ==
    \/ \E title \in MenuTitles, config \in Configs, data \in MenuDefinitions :
          AddJsonPanel(title, config, NoneValue, data)
    \/ \E i \in 1 .. MaxPanels : TouchLabel(i)

SpecMenu == InitSidebar /\ [][NextMenu]_vars

\* ------------------------------------------------------------------- claims
\* The calls on the config that change it and the events, in order.
Effects(tr) == SelectSeq(tr, LAMBDA e : e.op # "get")

CommitOps == {"value", "_validate"}

\* The item the last operation was applied to.
LastEntry(ps, call) == ps[call.uid].entries[call.index]

C2_EqualCommitIsSilent ==
    [][(/\ last'.op \in CommitOps
        /\ Bound(LastEntry(allPanels, last'))
        /\ allPanels[last'.uid].config # NoneValue
        /\ str(last'.value) = store[AddressOf(LastEntry(allPanels, last'))])
       => /\ Effects(trace') = <<>>
          /\ store' = store]_vars

\* C2's case: on_value ran for the edit, read the config and found the value
\* there already.
C2_Witness ==
    /\ last.op \in CommitOps
    /\ Len(trace) = 1
    /\ trace[1].op = "get"
    /\ Bound(LastEntry(allPanels, last))
    /\ store[AddressOf(LastEntry(allPanels, last))] = str(last.value)

\* C3 (as claimed): every item bound to a (section, key), in a panel with the
\* config, holds a value whose string form is the value the config holds for
\* that (section, key).
C3_ItemsMatchStore ==
    \A uid \in DOMAIN allPanels :
        \A i \in DOMAIN allPanels[uid].entries :
            LET entry == allPanels[uid].entries[i]
            IN  (Bound(entry) /\ allPanels[uid].config # NoneValue)
                    => str(entry.value) = store[AddressOf(entry)]

LoadOps == {"create_json_panel", "add_json_panel"}

\* Every record has a "type" and a class is registered for it.
ValidSchema(registry, items) ==
    \A i \in DOMAIN items :
        "type" \in DOMAIN items[i] /\ registry[items[i]["type"]] # NoneValue

\* The entries are one per record, in the records' order: the i-th is of the
\* class registered for the i-th record's type and has the record's other
\* keys as its properties.
BuiltFrom(registry, entries, items) ==
    /\ Len(entries) = Len(items)
    /\ \A i \in DOMAIN items :
          /\ entries[i].cls = registry[items[i]["type"]]
          /\ DOMAIN entries[i].kw = DOMAIN items[i] \ {"type"}
          /\ \A k \in DOMAIN entries[i].kw : entries[i].kw[k] = items[i][k]

\* The last call read a JSON text that is a list.
ReadList(call) ==
    /\ call.op \in LoadOps
    /\ call.filename # NoneValue \/ call.data # NoText
    /\ call.filename # NoneValue => FileExists(call.filename)
    /\ SourceText(call.filename, call.data).kind = "list"

\* C4: for a JSON list whose records all have a registered type,
\* create_json_panel returns a panel whose entries are one per record, in the
\* records' order, each of the class registered for its record's type and
\* built from the record's other keys.
C4_EntriesFollowSchemaOrder ==
    (ReadList(last) /\ ValidSchema(types, SourceText(last.filename, last.data).items))
        => /\ last.ret = "ok"
           /\ last.uid \in DOMAIN allPanels
           /\ BuiltFrom(types, allPanels[last.uid].entries,
                        SourceText(last.filename, last.data).items)

\* C4's case: a panel built from two records of different types, the second
\* of a type registered after the Settings was built.
C4_Witness ==
    /\ ReadList(last)
    /\ last.ret = "ok"
    /\ Len(allPanels[last.uid].entries) = MaxRecords
    /\ allPanels[last.uid].entries[1].cls = "SettingString"
    /\ allPanels[last.uid].entries[2].cls = "SettingOptions"

\* C5: when a record of the JSON list has no "type" or a type that is not
\* registered, wherever it is in the list, the call raises, no panel exists
\* after it that did not before, the panels of the content, the panel shown,
\* the selected uids and the items of the menu are as before, and the config
\* was neither set nor written.
C5_BadRecordChangesNothing ==
    [][(ReadList(last') /\ ~ValidSchema(types, SourceText(last'.filename, last'.data).items))
       => /\ last'.ret = "raise"
          /\ last'.uid = 0
          /\ UNCHANGED <<allPanels, panels, current_panel, current_panel_uid, children,
                         settings_uid, selected_uid, labels, store>>
          /\ Effects(trace') = <<>>]_vars

\* C5's case: the call raised at the second record, after it had built an
\* item for the first, with a panel already added to the Settings.
C5_Witness ==
    /\ last.op = "add_json_panel"
    /\ last.ret = "raise"
    /\ last.filename = NoneValue
    /\ last.data.kind = "list"
    /\ Len(last.data.items) = 2
    /\ ValidSchema(types, SubSeq(last.data.items, 1, 1))
    /\ Len(trace) > 0
    /\ panels # <<>>

\* C6 (as claimed): a call with neither a filename nor a data string raises,
\* and so does a call with both.
C6_NeitherOrBothRaises ==
    (/\ last.op \in LoadOps
     /\ (last.filename = NoneValue) = (last.data = NoText))
        => last.ret = "raise"

\* C6 (amended): a call with neither a filename nor a data string raises and
\* creates no panel; a call with both, the file being readable, does not
\* raise for that: it builds the panel from the file's text and never reads
\* the data string.
C6_NeitherRaisesBothReadsFile ==
    [][/\ (last'.op \in LoadOps /\ last'.filename = NoneValue /\ last'.data = NoText)
            => (last'.ret = "raise" /\ allPanels' = allPanels /\ panels' = panels)
       /\ (/\ last'.op \in LoadOps
           /\ last'.filename # NoneValue
           /\ last'.data # NoText
           /\ FileExists(last'.filename)
           /\ FileText(last'.filename).kind = "list"
           /\ ValidSchema(types, FileText(last'.filename).items))
            => /\ last'.ret = "ok"
               /\ allPanels' = Append(allPanels, allPanels'[last'.uid])
               /\ BuiltFrom(types, allPanels'[last'.uid].entries,
                            FileText(last'.filename).items)]_vars

\* C6's case: a call with a file and a data string that is no JSON list
\* returned the panel of the file.
C6_Witness ==
    /\ last.op \in LoadOps
    /\ last.filename # NoneValue
    /\ last.data = ObjectText
    /\ last.ret = "ok"

\* C7: switch_to_panel(uid) with a uid that is no key of panels returns False,
\* raises nothing and leaves panels, the panel shown and its uid as they were;
\* with a key of panels it returns True, takes the panel shown before out of
\* the container and shows the panel registered under uid.
C7_SwitchToPanel ==
    [][(last'.op = "switch_to_panel")
       => IF last'.uid \in DOMAIN panels
          THEN /\ last'.ret = "True"
               /\ current_panel' = panels[last'.uid]
               /\ current_panel_uid' = last'.uid
               /\ children' = <<panels[last'.uid]>>
               /\ panels' = panels
          ELSE /\ last'.ret = "False"
               /\ UNCHANGED <<panels, current_panel, current_panel_uid, children>>]_vars

\* C7's case: switch_to_panel returned False for an unknown uid while a panel
\* was shown, with another panel registered.
C7_Witness ==
    /\ last.op = "switch_to_panel"
    /\ last.ret = "False"
    /\ last.uid # 0
    /\ current_panel # 0
    /\ Cardinality(DOMAIN panels) = MaxPanels

\* C8 (as claimed): with SettingsWithNoMenu, adding a second panel raises, and
\* the content never has more than one panel registered or attached.
C8_NoMenuRefusesSecondPanel ==
    variant = "nomenu"
        => /\ (last.op = "add_json_panel" /\ last.uid > 1) => last.ret = "raise"
           /\ Cardinality(DOMAIN panels) <= 1
           /\ Len(children) <= 1

\* C9: add_json_panel registers the panel under its uid; the first panel
\* added becomes the panel shown and its uid the current one, and a panel
\* added later leaves the panel shown and the current uid as they were.
C9_FirstPanelShown ==
    [][(last'.op = "add_json_panel" /\ last'.ret = "ok")
       => /\ last'.uid \in DOMAIN panels'
          /\ panels'[last'.uid] = last'.uid
          /\ \A uid \in DOMAIN panels : uid \in DOMAIN panels' /\ panels'[uid] = panels[uid]
          /\ IF DOMAIN panels = {}
             THEN /\ current_panel_uid' = last'.uid
                  /\ current_panel' = last'.uid
                  /\ children' = <<last'.uid>>
             ELSE UNCHANGED <<current_panel_uid, current_panel, children>>]_vars

\* C9's case: a second panel was added and the first is still the one shown.
C9_Witness ==
    /\ last.op = "add_json_panel"
    /\ last.ret = "ok"
    /\ last.uid = 2
    /\ last.uid \in DOMAIN panels
    /\ current_panel_uid = 1
    /\ children = <<1>>

\* C10 (as claimed): the uid of the current panel that the Settings holds and
\* the one that its content holds are, when not 0, keys of panels, and the
\* panel shown is the one registered under them.
C10_SelectedUidsRegistered ==
    \A uid \in {settings_uid, current_panel_uid} :
        uid # 0 => (uid \in DOMAIN panels /\ current_panel = panels[uid])

\* C10 (amended): the content's current_panel_uid is, when not 0, a key of
\* panels, and the panel shown, the only child of the container, is the one
\* registered under it; when it is 0 no panel is shown.  The Settings'
\* current_panel_uid holds the uid last assigned to it, a key of panels or not.
C10_ContentUidRegistered ==
    IF current_panel_uid # 0
    THEN /\ current_panel_uid \in DOMAIN panels
         /\ current_panel = panels[current_panel_uid]
         /\ children = <<current_panel>>
    ELSE current_panel = 0 /\ children = <<>>

\* C10's case: a uid that is no key of panels was assigned to the Settings'
\* current_panel_uid while a panel was shown.
C10_Witness ==
    /\ last.op = "current_panel_uid"
    /\ settings_uid # 0
    /\ settings_uid \notin DOMAIN panels
    /\ current_panel_uid # 0

\* C11: the text typed into a numeric item is read as a float when the item's
\* value contains '.', else as an int, and the item takes the string form of
\* the number read ("3" and "5" give "5", "3.0" and "5" give "5.0"); a bound
\* item whose value changed leaves the config holding the new value.  A text
\* that cannot be read so ("abc", or "5.5" for an int) drops the edit: the
\* item's value and the config are as before, and the config is neither
\* read, set nor written, and no event is dispatched.
C11_NumericValidate ==
    [][(last'.op = "numeric._validate")
       => LET entry == LastEntry(allPanels, last')
              after == LastEntry(allPanels', last')
              prior == str(entry.value)
              text == last'.value
              read == IF has_dot(prior) THEN float(text) ELSE int(text)
          IN  /\ (prior = "3" /\ text = "5") => after.value = "5"
              /\ (prior = "3.0" /\ text = "5") => after.value = "5.0"
              /\ (text = "abc" \/ (prior = "3" /\ text = "5.5")) => ~read.ok
              /\ IF read.ok
                 THEN /\ last'.ret = "None"
                      /\ after.value = text_type(read)
                      /\ (/\ after.value # entry.value
                          /\ Bound(entry)
                          /\ allPanels[last'.uid].config # NoneValue)
                            => store' = [store EXCEPT ![AddressOf(entry)] = after.value]
                 ELSE /\ last'.ret = "ValueError"
                      /\ allPanels' = allPanels
                      /\ store' = store
                      /\ trace' = <<>>]_vars

\* C11's case: "5" typed into an item holding a float was stored as "5.0",
\* the config set and written and the event dispatched.
C11_Witness ==
    /\ last.op = "numeric._validate"
    /\ last.value = "5"
    /\ LastEntry(allPanels, last).value = "5.0"
    /\ store[<<"s", "k2">>] = "5.0"
    /\ Len(Effects(trace)) = 3

\* The calls config.get(section, key) for the bound items of entries, in the
\* items' order, each made n times in a row.
RECURSIVE Reads(_, _, _)
Reads(entries, config, n) ==
    IF entries = <<>>
    THEN <<>>
    ELSE LET entry == Head(entries)
             get == Event("get", config, Prop(entry.kw, "section"), Prop(entry.kw, "key"),
                          NoneValue)
         IN  (IF Bound(entry) THEN [k \in 1 .. n |-> get] ELSE <<>>)
                 \o Reads(Tail(entries), config, n)

\* The items of the panel the last call built hold the values the config
\* holds for their section and key.
BuiltWithStoredValues ==
    \A i \in DOMAIN allPanels[last.uid].entries :
        LET entry == allPanels[last.uid].entries[i]
        IN  Bound(entry) => entry.value = store[AddressOf(entry)]

\* The last call built a panel with a config.
BuiltWithConfig ==
    /\ last.op \in LoadOps
    /\ last.ret = "ok"
    /\ last.config # NoneValue

\* C12 (as claimed): building a panel with a config calls config.get once for
\* each item bound to a section and key and makes no other call on the
\* config and dispatches no event, and each item holds the value stored.
C12_OneReadPerEntry ==
    BuiltWithConfig
        => /\ trace = Reads(allPanels[last.uid].entries, last.config, 1)
           /\ BuiltWithStoredValues

\* C12 (amended): building a panel with a config calls config.get twice in a
\* row for each item bound to a section and key, once in __init__ and once
\* in the set_value that the assignment of the value read ends in; it makes
\* no other call on the config and dispatches no event, and each item holds
\* the value stored.
C12_TwoReadsPerEntry ==
    BuiltWithConfig
        => /\ trace = Reads(allPanels[last.uid].entries, last.config, 2)
           /\ BuiltWithStoredValues

\* C12's case: a panel of two bound items was built with a config.
C12_Witness ==
    /\ BuiltWithConfig
    /\ Len(allPanels[last.uid].entries) = 2
    /\ \A i \in 1 .. 2 : Bound(allPanels[last.uid].entries[i])
    /\ Len(trace) = 4

\* C13 (as claimed): no call on the config and no event is made for an item
\* without a section or without a key: no get, set or on_config_change names
\* an unset section or key, whether a panel is built or an item edited, and
\* an edit of such an item makes no call and dispatches no event at all.
C13_UnboundTouchesNothing ==
    /\ \A k \in DOMAIN trace :
          trace[k].op \in {"get", "set", "on_config_change"}
              => ~Falsy(trace[k].section) /\ ~Falsy(trace[k].key)
    /\ (last.op \in CommitOps /\ ~Bound(LastEntry(allPanels, last))) => trace = <<>>

\* The tags a registry binds, each with its class.
BindingsOf(registry) ==
    {<<tp, registry[tp]>> : tp \in {t \in DOMAIN registry : registry[t] # NoneValue}}

\* The six bindings of a Settings instance just built.
SixDefaults ==
    {<<"string", "SettingString">>, <<"bool", "SettingBoolean">>,
     <<"numeric", "SettingNumeric">>, <<"options", "SettingOptions">>,
     <<"title", "SettingTitle">>, <<"path", "SettingPath">>}

\* The registry after binding tp to cls in before: no other tag differs.
Rebound(before, after, tp, cls) ==
    /\ after[tp] = cls
    /\ \A t \in DOMAIN before \ {tp} : after[t] = before[t]
    /\ DOMAIN after = DOMAIN before

\* The last call, on a Settings instance with the registry given, read a
\* list of records: it built a panel with an item of the class the registry
\* binds to each record's type, or raised when a type is not bound.
LoadedWith(registry, call, ps) ==
    IF ValidSchema(registry, call.data.items)
    THEN /\ call.ret = "ok"
         /\ BuiltFrom(registry, ps[call.uid].entries, call.data.items)
    ELSE call.ret = "raise"

\* C14: each Settings instance has a registry of its own.  An instance starts
\* with the six default bindings and no other; register_type(tp, cls) on an
\* instance binds tp to cls in its registry, whatever tp was bound to, and
\* leaves the other tags and the other instance's registry as they were; and
\* a definition loaded in an instance is built with the classes its own
\* registry binds at that time.
C14_RegistryPerContainer ==
    /\ BindingsOf(types) = SixDefaults
    /\ BindingsOf(peer_types) = SixDefaults
    /\ [][/\ (last'.op = "Settings")
               => (BindingsOf(peer_types') = SixDefaults /\ types' = types)
          /\ (last'.op = "register_type")
               => (Rebound(types, types', last'.tp, last'.cls) /\ peer_types' = peer_types)
          /\ (last'.op = "peer.register_type")
               => (Rebound(peer_types, peer_types', last'.tp, last'.cls) /\ types' = types)
          /\ (last'.op = "add_json_panel")
               => (LoadedWith(types, last', allPanels') /\ UNCHANGED <<types, peer_types>>)
          /\ (last'.op = "peer.create_json_panel")
               => (LoadedWith(peer_types, last', allPanels')
                   /\ UNCHANGED <<types, peer_types>>)]_vars

\* C14's case: a tag was bound to one class and then to another in the first
\* instance, and a definition loaded there was built with the second, while
\* the other instance has the tag unbound and its defaults, and the first
\* has a default replaced.
C14_Witness ==
    /\ last.op = "add_json_panel"
    /\ last.ret = "ok"
    /\ last.data = ListText(<<ColorRecord>>)
    /\ allPanels[last.uid].entries[1].cls = "SettingBoolean"
    /\ Len(allPanels) = 2
    /\ allPanels[1].entries[1].cls = "SettingOptions"
    /\ types["string"] = "SettingNumeric"
    /\ BindingsOf(peer_types) = SixDefaults

\* The labels of the sidebar that are marked selected.
SelectedLabels == {i \in DOMAIN labels : labels[i].selected}

\* C15: with the sidebar, whatever panels were added and labels touched, at
\* most one label is marked selected; once a panel was added exactly one is,
\* its uid is the menu's selected_uid, which is the Settings'
\* current_panel_uid and the content's, and the panel registered under it is
\* the one shown.
C15_OneLabelSelected ==
    /\ Cardinality(SelectedLabels) <= 1
    /\ DOMAIN panels # {}
         => /\ Cardinality(SelectedLabels) = 1
            /\ \A i \in SelectedLabels : labels[i].uid = selected_uid
            /\ settings_uid = selected_uid
            /\ current_panel_uid = selected_uid
            /\ selected_uid \in DOMAIN panels
            /\ current_panel = panels[selected_uid]
            /\ children = <<current_panel>>

\* C15's case: the label of the second panel was touched while the first
\* was selected.
C15_Witness ==
    /\ last.op = "on_touch_down"
    /\ last.index = 2
    /\ Len(labels) >= 2
    /\ labels[2].selected
    /\ ~labels[1].selected
    /\ selected_uid = labels[2].uid

====
